---- MODULE Spec2Model ----
(***************************************************************************)
(* The slide animation engine (hooks/useSlideAnimation), the navigation    *)
(* gates (usePPTControls.goNext, useSlideGroupedAnimation) and the virtual *)
(* clock of their setTimeout callbacks.                                    *)
(*                                                                         *)
(* Element states are objects: a timer closes over the object it was       *)
(* created for, the registry (a Map) holds the object currently registered *)
(* under an id.  objs is the heap, elementsRef the Map in insertion order. *)
(* mode / isGrouped are React state: modeState / isGroupedState hold the   *)
(* value last set, mode / isGrouped the value captured by the closures of  *)
(* the latest render (checkGroupCompletionRef.current, start).             *)
(***************************************************************************)
EXTENDS Integers, Sequences, FiniteSets, TLC

VARIABLES
    animationsEnabled,          \* areElementAnimationsEnabled() at mount
    objs,                       \* heap of ElementState objects
    elementsRef,                \* elementsRef.current: Map id -> object, insertion order
    currentGroupRef,            \* currentGroupRef.current
    modeState, isGroupedState,  \* useState values last set
    mode, isGrouped,            \* values seen by the closures of the latest render
    groupCacheRef,              \* groupCacheRef.current
    enterCompleteCallbacks,     \* per subscriber: number of invocations
    emphasisCompleteCallbacks,
    exitCompleteCallbacks,
    groupCompleteCallbacks,     \* per subscriber: the calls received
    timers,                     \* pending setTimeout callbacks, in creation order
    now,                        \* virtual clock, ms
    currentSlideAPI,            \* useAppStore.currentSlideAPI is the engine
    animationAPIRef,            \* useSlideGroupedAnimation: engine registered
    currentIndex, isFullScreen, \* deck state driven by goNext
    goNextIsFullScreen,         \* isFullScreen as captured by the goNext closure in use
    lastOp,                     \* the latest call: its name, what an advance request did,
                                \* and for skip() the callback counts, the timers and the
                                \* entered elements it found
    ops,                        \* number of operations issued so far
    staleTimers,                \* how many of the oldest pending timers predate the last reset()
    mountedSlides,              \* the places of the page where a slide instance is mounted
    slideAPIOwner,              \* whose engine useAppStore.currentSlideAPI holds, or NoSlide
    manager,                    \* SlideAnimationManager: its context signals and its Map entry
                                \* for the element id
    wrappers,                   \* the ElementAnimationWrapper instances of that id, in mount
                                \* order: state, refs and the timer each one left pending
    reports                     \* the onElementEnterComplete calls the manager received

vars == <<animationsEnabled, objs, elementsRef, currentGroupRef, modeState,
          isGroupedState, mode, isGrouped, groupCacheRef, enterCompleteCallbacks,
          emphasisCompleteCallbacks, exitCompleteCallbacks, groupCompleteCallbacks,
          timers, now, currentSlideAPI, animationAPIRef, currentIndex, isFullScreen,
          goNextIsFullScreen,
          lastOp, ops, staleTimers, mountedSlides, slideAPIOwner, manager, wrappers,
          reports>>

(***************************************************************************)
(* Bounds of the model.                                                    *)
(***************************************************************************)
MaxObjs == 2
MaxOps == 4
MaxSubs == 2
TotalSlides == 2

(***************************************************************************)
(* Program constants.                                                      *)
(***************************************************************************)
DefaultDuration == 600
GroupStagger == 300

NoGroup == -1
NoSlide == "none"
\* where the page mounts slide components: the stage, the full-screen portal, the
\* thumbnail preloader and the export container
Places == {"stage", "portal", "preloader", "export"}
NoAnim == [has |-> FALSE, duration |-> 0, delay |-> 0]
Anim(d, dl) == [has |-> TRUE, duration |-> d, delay |-> dl]

\* `x || 600`, `x || 0`: 0 and undefined both take the default
OrDefault(x, dflt) == IF x = 0 THEN dflt ELSE x

Max(a, b) == IF a >= b THEN a ELSE b
Min(a, b) == IF a <= b THEN a ELSE b

Range(f) == {f[k] : k \in DOMAIN f}

(***************************************************************************)
(* SlideAnimationManager and ElementAnimationWrapper, for one element id.  *)
(* manager.element is the entry of the manager's elements Map under that   *)
(* id; a wrapper instance keeps its timerRef after it is unmounted, since  *)
(* no cleanup clears it.                                                   *)
(***************************************************************************)
MaxMounts == 2
MaxTrigger == 2
MaxTicks == 1
TickMs == 200
WrapperDefault == 500

NoElement ==
    [registered |-> FALSE, enterCompleted |-> FALSE, emphasisCompleted |-> FALSE,
     exitCompleted |-> FALSE]

NewManager ==
    [isVisible |-> FALSE, shouldExit |-> FALSE, triggerEmphasis |-> 0,
     element |-> NoElement]

registerElement(m) == [m EXCEPT !.element = [NoElement EXCEPT !.registered = TRUE]]

unregisterElement(m) == [m EXCEPT !.element = NoElement]

\* onElementEnterComplete / onElementEmphasisComplete / onElementExitComplete
onElementComplete(m, kind) ==
    IF ~m.element.registered THEN m
    ELSE CASE kind = "enter" -> [m EXCEPT !.element.enterCompleted = TRUE]
           [] kind = "emphasis" -> [m EXCEPT !.element.emphasisCompleted = TRUE]
           [] kind = "exit" -> [m EXCEPT !.element.exitCompleted = TRUE]

NoWrapperTimer == [kind |-> "none", at |-> 0]

\* enteredAt records when the instance went from hidden to entering (-1: not yet)
NewWrapper(props) ==
    [mounted |-> TRUE, props |-> props, animationState |-> "hidden", emphasisCount |-> 0,
     timerRef |-> NoWrapperTimer, enterCompletedRef |-> FALSE,
     emphasisCompletedRef |-> FALSE, exitCompletedRef |-> FALSE, enteredAt |-> -1]

\* (animation?.duration || 500) + (animation?.delay || 0)
WrapperTime(anim) == OrDefault(anim.duration, WrapperDefault) + anim.delay

enterEffect(w, m, t) ==
    IF m.isVisible /\ w.animationState = "hidden"
    THEN [w EXCEPT !.animationState = "entering",
                   !.timerRef = [kind |-> "enter", at |-> t + WrapperTime(w.props.enter)],
                   !.enteredAt = t]
    ELSE w

\* variant: the emphasis effect does not look at animationState
ShouldEmphasizeNowAnyState(w, m) ==
    m.triggerEmphasis > w.emphasisCount /\ w.props.emphasis.has

ShouldEmphasizeNow(w, m) ==
    m.triggerEmphasis > w.emphasisCount /\ w.animationState = "visible"
        /\ w.props.emphasis.has

emphasisEffect(w, m, t) ==
    IF ShouldEmphasizeNow(w, m)
    THEN [w EXCEPT !.animationState = "emphasizing",
                   !.emphasisCount = m.triggerEmphasis,
                   !.timerRef = [kind |-> "emphasis",
                                 at |-> t + WrapperTime(w.props.emphasis)]]
    ELSE w

exitEffect(w, m, t) ==
    IF m.shouldExit /\ w.animationState \in {"visible", "emphasizing"}
    THEN [w EXCEPT !.animationState = "exiting",
                   !.timerRef = [kind |-> "exit", at |-> t + WrapperTime(w.props.exit)]]
    ELSE w

\* The effects of one commit, in declaration order. Every effect of a commit reads the
\* animationState of that render; applying them in sequence gives the same result,
\* because the enter effect leaves a state no later guard accepts and the exit guard
\* accepts both "visible" and the "emphasizing" the emphasis effect has just set.
wrapperEffects(w, m, t) ==
    IF w.mounted THEN exitEffect(emphasisEffect(enterEffect(w, m, t), m, t), m, t) ELSE w

\* the callback of the instance's pending timer tells the manager
WrapperReports(w) ==
    CASE w.timerRef.kind = "enter" -> ~w.enterCompletedRef
      [] w.timerRef.kind = "emphasis" -> ~w.emphasisCompletedRef
      [] w.timerRef.kind = "exit" -> ~w.exitCompletedRef

\* the setTimeout callback: setAnimationState on an unmounted instance does nothing
onWrapperTimer(w) ==
    LET kind == w.timerRef.kind
        shown == IF w.mounted /\ kind \in {"enter", "emphasis"}
                 THEN "visible" ELSE w.animationState
    IN  [w EXCEPT !.animationState = shown,
                  !.timerRef = NoWrapperTimer,
                  !.enterCompletedRef = @ \/ kind = "enter",
                  !.emphasisCompletedRef = @ \/ kind = "emphasis",
                  !.exitCompletedRef = @ \/ kind = "exit"]

(***************************************************************************)
(* The engine's mutable data as one record, so that a handler and the      *)
(* functions it calls compose as the code's calls do.                      *)
(***************************************************************************)
Engine ==
    [objs |-> objs, elementsRef |-> elementsRef, currentGroupRef |-> currentGroupRef,
     groupCacheRef |-> groupCacheRef,
     enterCompleteCallbacks |-> enterCompleteCallbacks,
     emphasisCompleteCallbacks |-> emphasisCompleteCallbacks,
     exitCompleteCallbacks |-> exitCompleteCallbacks,
     groupCompleteCallbacks |-> groupCompleteCallbacks,
     timers |-> timers]

Commit(s) ==
    /\ objs' = s.objs
    /\ elementsRef' = s.elementsRef
    /\ currentGroupRef' = s.currentGroupRef
    /\ groupCacheRef' = s.groupCacheRef
    /\ enterCompleteCallbacks' = s.enterCompleteCallbacks
    /\ emphasisCompleteCallbacks' = s.emphasisCompleteCallbacks
    /\ exitCompleteCallbacks' = s.exitCompleteCallbacks
    /\ groupCompleteCallbacks' = s.groupCompleteCallbacks
    /\ timers' = s.timers

NewElementState(id, config) ==
    [id |-> id, ref |-> config.ref, enter |-> config.enter,
     emphasis |-> config.emphasis, exit |-> config.exit, group |-> config.group,
     enterCompleted |-> FALSE, emphasisCompleted |-> FALSE, exitCompleted |-> FALSE,
     currentAnimation |-> "none"]

Timer(kind, obj, group, at, all) ==
    [kind |-> kind, obj |-> obj, group |-> group, at |-> at, all |-> all]

\* forEach over a callback list
NotifyAll(cbs) == [k \in 1..Len(cbs) |-> cbs[k] + 1]
NotifyGroup(cbs, group, isLastGroup, t) ==
    [k \in 1..Len(cbs) |->
        Append(cbs[k], [group |-> group, isLastGroup |-> isLastGroup, at |-> t])]

updateCurrentGroup(s, newGroup) == [s EXCEPT !.currentGroupRef = newGroup]

\* variant: the group filter dropped
getGroupElementsAll(s, group) == s.elementsRef

getGroupElements(s, group) ==
    SelectSeq(s.elementsRef, LAMBDA i : s.objs[i].group = group)

CountGroups(s) ==
    Cardinality({s.objs[i].group : i \in Range(s.elementsRef)} \ {NoGroup})

getTotalGroups(s) ==
    IF s.groupCacheRef.lastElementCount = Len(s.elementsRef)
    THEN s.groupCacheRef.totalGroups
    ELSE CountGroups(s)

\* the cache as a call of getTotalGroups leaves it
Cached(s) ==
    [s EXCEPT !.groupCacheRef =
        [totalGroups |-> getTotalGroups(s), lastElementCount |-> Len(s.elementsRef)]]

EnterTime(el) == OrDefault(el.enter.duration, DefaultDuration) + OrDefault(el.enter.delay, 0)

\* variant: replaying a phase clears the element's enter flag
MarkAnimatingRestart(el, phase) ==
    [el EXCEPT !.currentAnimation = phase, !.enterCompleted = FALSE]

MarkAnimating(el, phase) == [el EXCEPT !.currentAnimation = phase]

ShouldAnimateEnter(el) == el.ref /\ el.enter.has /\ ~el.enterCompleted

animateGroup(s, group, forcedTotalGroups, t) ==
    LET s1 == updateCurrentGroup(s, group)
        s2 == IF forcedTotalGroups = 0 THEN Cached(s1) ELSE s1
        targets == SelectSeq(getGroupElements(s2, group),
                             LAMBDA i : ShouldAnimateEnter(s2.objs[i]))
    IN  [s2 EXCEPT
            !.objs = [i \in DOMAIN s2.objs |->
                        IF i \in Range(targets)
                        THEN MarkAnimating(s2.objs[i], "enter")
                        ELSE s2.objs[i]],
            !.timers = @ \o [k \in 1..Len(targets) |->
                        Timer("enter", targets[k], group,
                              t + EnterTime(s2.objs[targets[k]]), <<>>)]]

\* variant: `some` in place of `every`
GroupCompletedBySome(s, group) ==
    \E k \in 1..Len(getGroupElements(s, group)) :
        s.objs[getGroupElements(s, group)[k]].enterCompleted

GroupCompleted(s, group) ==
    LET groupElements == getGroupElements(s, group)
    IN  /\ \A k \in 1..Len(groupElements) : s.objs[groupElements[k]].enterCompleted
        /\ Len(groupElements) > 0

IsLastGroup(group, totalGroups) == group >= totalGroups - 1

\* variant: the mode test dropped
ShouldAutoAdvanceAnyMode(grouped, md) == grouped

ShouldAutoAdvance(grouped, md) == grouped /\ md = "sequential"

checkGroupCompletion(s, group, t, grouped, md) ==
    IF GroupCompleted(s, group)
    THEN LET totalGroups == getTotalGroups(s)
             isLastGroup == IsLastGroup(group, totalGroups)
             s1 == [Cached(s) EXCEPT !.groupCompleteCallbacks =
                        NotifyGroup(@, group, isLastGroup, t)]
         IN  IF isLastGroup
             THEN [s1 EXCEPT !.enterCompleteCallbacks = NotifyAll(@)]
             ELSE IF ShouldAutoAdvance(grouped, md)
                  THEN animateGroup(updateCurrentGroup(s1, group + 1), group + 1, 0, t)
                  ELSE s1
    ELSE s

(***************************************************************************)
(* The engine's operations, as functions of the engine record.             *)
(***************************************************************************)
IndexOfId(s, id) ==
    LET hits == {k \in 1..Len(s.elementsRef) : s.objs[s.elementsRef[k]].id = id}
    IN  IF hits = {} THEN 0 ELSE CHOOSE k \in hits : TRUE

\* variant: every registration adds an entry
MapSetAppend(s, id, obj) == Append(s.elementsRef, obj)

\* Map.set: an existing key keeps its place, a new key goes last
MapSet(s, id, obj) ==
    IF IndexOfId(s, id) = 0
    THEN Append(s.elementsRef, obj)
    ELSE [s.elementsRef EXCEPT ![IndexOfId(s, id)] = obj]

\* variant: the cache is not invalidated
addElementKeepsCache(s, id, config) ==
    Cached([s EXCEPT !.objs = Append(@, NewElementState(id, config)),
                     !.elementsRef = MapSet(s, id, Len(s.objs) + 1)])

addElement(s, id, config) ==
    LET obj == Len(s.objs) + 1
        s1 == [s EXCEPT !.objs = Append(@, NewElementState(id, config)),
                        !.elementsRef = MapSet(s, id, obj)]
        s2 == [s1 EXCEPT !.groupCacheRef.lastElementCount = -1]
    IN  Cached(s2)

ShouldStartEnter(el) == el.ref /\ el.enter.has

GroupsOf(s) == {s.objs[i].group : i \in Range(s.elementsRef)} \ {NoGroup}

\* the groups in ascending order
RECURSIVE SortedGroups(_)
SortedGroups(gs) ==
    IF gs = {} THEN <<>>
    ELSE LET g == CHOOSE x \in gs : \A y \in gs : x <= y
         IN  <<g>> \o SortedGroups(gs \ {g})

start(s, md, t) ==
    LET allElements == s.elementsRef
    IN  IF md = "parallel"
        THEN LET targets == SelectSeq(allElements, LAMBDA i : ShouldStartEnter(s.objs[i]))
             IN  [s EXCEPT
                    !.objs = [i \in DOMAIN s.objs |->
                                IF i \in Range(targets)
                                THEN MarkAnimating(s.objs[i], "enter") ELSE s.objs[i]],
                    !.timers = @ \o [k \in 1..Len(targets) |->
                                Timer("enterAll", targets[k], NoGroup,
                                      t + EnterTime(s.objs[targets[k]]), allElements)]]
        ELSE LET sortedGroups == SortedGroups(GroupsOf(s))
             IN  [s EXCEPT !.timers = @ \o [k \in 1..Len(sortedGroups) |->
                        Timer("animateGroup", 0, sortedGroups[k],
                              t + (k - 1) * GroupStagger, <<>>)]]

startGrouped(s, t) ==
    LET s1 == updateCurrentGroup(s, 0)
    IN  [s1 EXCEPT !.timers = Append(@, Timer("startGrouped", 0, 0, t, <<>>))]

NextGroupIndex(s) == Min(s.currentGroupRef + 1, getTotalGroups(s) - 1)

nextGroup(s, t) ==
    LET s1 == Cached(s)
        nextGroupIndex == NextGroupIndex(s)
    IN  IF nextGroupIndex # s.currentGroupRef
        THEN animateGroup(updateCurrentGroup(s1, nextGroupIndex), nextGroupIndex, 0, t)
        ELSE s1

EmphasisTime(el) == OrDefault(el.emphasis.duration, DefaultDuration)
ExitTime(el) == OrDefault(el.exit.duration, DefaultDuration)

\* variant: the enterCompleted condition dropped
ShouldEmphasizeUngated(el) == el.ref /\ el.emphasis.has

ShouldEmphasize(el) == el.ref /\ el.emphasis.has /\ el.enterCompleted
ShouldExit(el) == el.ref /\ el.exit.has

emphasis(s, t) ==
    LET allElements == s.elementsRef
        targets == SelectSeq(allElements, LAMBDA i : ShouldEmphasize(s.objs[i]))
    IN  [s EXCEPT
            !.objs = [i \in DOMAIN s.objs |->
                        IF i \in Range(targets)
                        THEN MarkAnimating(s.objs[i], "emphasis") ELSE s.objs[i]],
            !.timers = @ \o [k \in 1..Len(targets) |->
                        Timer("emphasis", targets[k], NoGroup,
                              t + EmphasisTime(s.objs[targets[k]]), allElements)]]

exit(s, t) ==
    LET allElements == s.elementsRef
        targets == SelectSeq(allElements, LAMBDA i : ShouldExit(s.objs[i]))
    IN  [s EXCEPT
            !.objs = [i \in DOMAIN s.objs |->
                        IF i \in Range(targets)
                        THEN MarkAnimating(s.objs[i], "exit") ELSE s.objs[i]],
            !.timers = @ \o [k \in 1..Len(targets) |->
                        Timer("exit", targets[k], NoGroup,
                              t + ExitTime(s.objs[targets[k]]), allElements)]]

Skipped(el) ==
    [el EXCEPT !.enterCompleted = TRUE, !.emphasisCompleted = TRUE,
               !.exitCompleted = TRUE, !.currentAnimation = "none"]

\* what skip() leaves of the pending timers: it clears none
TimersAfterSkip(ts) == ts

skip(s) ==
    [s EXCEPT
        !.objs = [i \in DOMAIN s.objs |->
                    IF i \in Range(s.elementsRef) THEN Skipped(s.objs[i]) ELSE s.objs[i]],
        !.timers = TimersAfterSkip(@),
        !.enterCompleteCallbacks = NotifyAll(@),
        !.emphasisCompleteCallbacks = NotifyAll(@),
        !.exitCompleteCallbacks = NotifyAll(@)]

\* what reset() leaves of the pending timers: it clears none
TimersAfterReset(ts) == ts

reset(s) ==
    [updateCurrentGroup(s, 0) EXCEPT
        !.elementsRef = <<>>,
        !.timers = TimersAfterReset(@),
        !.enterCompleteCallbacks = <<>>,
        !.emphasisCompleteCallbacks = <<>>,
        !.exitCompleteCallbacks = <<>>,
        !.groupCompleteCallbacks = <<>>,
        !.groupCacheRef = [totalGroups |-> 0, lastElementCount |-> 0]]

\* variant: off by one
isAllGroupsCompleteOffByOne(s) == s.currentGroupRef >= getTotalGroups(s) - 2

isAllGroupsComplete(s) == s.currentGroupRef >= getTotalGroups(s) - 1
getCurrentGroup(s) == s.currentGroupRef

\* variant: an element without an emphasis descriptor counts as not done
isEmphasisCompleteStrict(s) ==
    \A i \in Range(s.elementsRef) : s.objs[i].emphasisCompleted

isEmphasisComplete(s) ==
    \A i \in Range(s.elementsRef) : ~s.objs[i].emphasis.has \/ s.objs[i].emphasisCompleted

isExitComplete(s) ==
    \A i \in Range(s.elementsRef) : ~s.objs[i].exit.has \/ s.objs[i].exitCompleted

(***************************************************************************)
(* The setTimeout callbacks.                                               *)
(***************************************************************************)
EnterDone(el) == [el EXCEPT !.enterCompleted = TRUE, !.currentAnimation = "none"]
EmphasisDone(el) == [el EXCEPT !.emphasisCompleted = TRUE, !.currentAnimation = "none"]
ExitDone(el) == [el EXCEPT !.exitCompleted = TRUE, !.currentAnimation = "none"]

onEnterTimer(s, tm, t, grouped, md) ==
    checkGroupCompletion([s EXCEPT !.objs[tm.obj] = EnterDone(@)], tm.group, t, grouped, md)

onEnterAllTimer(s, tm) ==
    LET s1 == [s EXCEPT !.objs[tm.obj] = EnterDone(@)]
    IN  IF \A i \in Range(tm.all) : s1.objs[i].enterCompleted
        THEN [s1 EXCEPT !.enterCompleteCallbacks = NotifyAll(@)]
        ELSE s1

\* variant: every emphasis completion notifies
onEmphasisTimerEach(s, tm) ==
    [s EXCEPT !.objs[tm.obj] = EmphasisDone(@),
              !.emphasisCompleteCallbacks = NotifyAll(@)]

onEmphasisTimer(s, tm) ==
    LET s1 == [s EXCEPT !.objs[tm.obj] = EmphasisDone(@)]
    IN  IF \A i \in Range(tm.all) : ~s1.objs[i].emphasis.has \/ s1.objs[i].emphasisCompleted
        THEN [s1 EXCEPT !.emphasisCompleteCallbacks = NotifyAll(@)]
        ELSE s1

onExitTimer(s, tm) ==
    LET s1 == [s EXCEPT !.objs[tm.obj] = ExitDone(@)]
    IN  IF \A i \in Range(tm.all) : ~s1.objs[i].exit.has \/ s1.objs[i].exitCompleted
        THEN [s1 EXCEPT !.exitCompleteCallbacks = NotifyAll(@)]
        ELSE s1

onStartGroupedTimer(s, t) ==
    animateGroup(Cached(s), 0, getTotalGroups(s), t)

onTimer(s, tm, t, grouped, md) ==
    CASE tm.kind = "enter" -> onEnterTimer(s, tm, t, grouped, md)
      [] tm.kind = "enterAll" -> onEnterAllTimer(s, tm)
      [] tm.kind = "emphasis" -> onEmphasisTimer(s, tm)
      [] tm.kind = "exit" -> onExitTimer(s, tm)
      [] tm.kind = "startGrouped" -> onStartGroupedTimer(s, t)
      [] tm.kind = "animateGroup" -> animateGroup(s, tm.group, 0, t)

\* the timer the event loop runs next: the earliest deadline, the oldest among equals
NextTimer(ts) ==
    CHOOSE k \in 1..Len(ts) :
        \A j \in 1..Len(ts) : ts[k].at < ts[j].at \/ (ts[k].at = ts[j].at /\ k <= j)

RemoveAt(seq, k) == [j \in 1..(Len(seq) - 1) |-> IF j < k THEN seq[j] ELSE seq[j + 1]]

(***************************************************************************)
(* The navigation gates.                                                   *)
(***************************************************************************)
\* the api a gate holds: the engine's, or the no-op api when animations are disabled
apiIsAllGroupsComplete(s) == IF animationsEnabled THEN isAllGroupsComplete(s) ELSE TRUE
apiGetCurrentGroup(s) == IF animationsEnabled THEN getCurrentGroup(s) ELSE 0
apiGetTotalGroups(s) == IF animationsEnabled THEN getTotalGroups(s) ELSE 0
apiIsEmphasisComplete(s) == IF animationsEnabled THEN isEmphasisComplete(s) ELSE TRUE

\* variant: the disabled engine reports its exit animations as not done
apiIsExitCompleteDefaultFalse(s) == IF animationsEnabled THEN isExitComplete(s) ELSE FALSE

apiIsExitComplete(s) == IF animationsEnabled THEN isExitComplete(s) ELSE TRUE
apiNextGroup(s, t) == IF animationsEnabled THEN nextGroup(s, t) ELSE s
apiEmphasis(s, t) == IF animationsEnabled THEN emphasis(s, t) ELSE s
apiExit(s, t) == IF animationsEnabled THEN exit(s, t) ELSE s
apiQueried(s) == IF animationsEnabled THEN Cached(s) ELSE s

Advance(outcome, calls, pageChange, s) ==
    [outcome |-> outcome, calls |-> calls, pageChange |-> pageChange, s |-> s]

\* variant: off by one
HasNextGroupOffByOne(s) == apiGetCurrentGroup(s) < apiGetTotalGroups(s) - 2

HasNextGroup(s) == apiGetCurrentGroup(s) < apiGetTotalGroups(s) - 1

\* variant: the registration check dropped
handleNextRequestUnchecked(s, registered, t) ==
    IF apiIsAllGroupsComplete(s)
    THEN Advance("page-change", <<>>, 1, apiQueried(s))
    ELSE IF HasNextGroup(s)
         THEN Advance("animation", <<"nextGroup">>, 0, apiNextGroup(s, t))
         ELSE Advance("blocked", <<>>, 0, apiQueried(s))

handleNextRequest(s, registered, t) ==
    IF ~registered
    THEN Advance("page-change", <<>>, 1, s)
    ELSE IF apiIsAllGroupsComplete(s)
         THEN Advance("page-change", <<>>, 1, apiQueried(s))
         ELSE IF HasNextGroup(s)
              THEN Advance("animation", <<"nextGroup">>, 0, apiNextGroup(s, t))
              ELSE Advance("blocked", <<>>, 0, apiQueried(s))

goNext(s, handle, t) ==
    IF handle /\ ~apiIsAllGroupsComplete(s)
    THEN Advance("animation", <<"nextGroup">>, 0, apiNextGroup(s, t))
    ELSE IF handle /\ ~apiIsEmphasisComplete(s)
         THEN Advance("animation", <<"emphasis">>, 0, apiEmphasis(apiQueried(s), t))
         ELSE IF handle /\ ~apiIsExitComplete(s)
              THEN Advance("animation", <<"exit">>, 0, apiExit(apiQueried(s), t))
              ELSE Advance("page-change", <<>>, 0, IF handle THEN apiQueried(s) ELSE s)

\* the last step of goNext: the next slide, or leaving full screen on the last one
slideChange(index, fullScreen, captured) ==
    IF index < TotalSlides - 1
    THEN [currentIndex |-> index + 1, isFullScreen |-> fullScreen, changed |-> TRUE]
    ELSE [currentIndex |-> index,
          isFullScreen |-> IF captured THEN FALSE ELSE fullScreen,
          changed |-> FALSE]

(***************************************************************************)
(* Inputs.                                                                 *)
(***************************************************************************)
Ids == {"a", "b"}
IdSeq == <<"a", "b", "c">>
Modes == {"parallel", "sequential"}
EnterChoices == {NoAnim, Anim(0, 0)}
LaterChoices == {NoAnim, Anim(500, 0)}
GroupChoices == {NoGroup, 0, 1}
Configs ==
    {[ref |-> TRUE, enter |-> e, emphasis |-> l, exit |-> l, group |-> g] :
        e \in EnterChoices, l \in LaterChoices, g \in GroupChoices}

NoSnapshot ==
    [enter |-> <<>>, emphasis |-> <<>>, exit |-> <<>>, timers |-> <<>>, entered |-> {}]
Op(name) ==
    [name |-> name, outcome |-> "none", calls |-> <<>>, pageChange |-> 0,
     before |-> NoSnapshot]

mountVars == <<mountedSlides, slideAPIOwner>>
wrapperVars == <<manager, wrappers, reports>>
reactVars == <<modeState, isGroupedState, mode, isGrouped>>
gateVars == <<currentSlideAPI, animationAPIRef>>
deckVars == <<currentIndex, isFullScreen, goNextIsFullScreen>>
engineVars == <<objs, elementsRef, currentGroupRef, groupCacheRef, enterCompleteCallbacks,
                emphasisCompleteCallbacks, exitCompleteCallbacks, groupCompleteCallbacks,
                timers>>

\* a call issued by the slide or the user
Call(name) ==
    /\ ops < MaxOps
    /\ ops' = ops + 1
    /\ lastOp' = Op(name)
    /\ staleTimers' = IF name = "reset" THEN Len(timers) ELSE staleTimers
    /\ UNCHANGED <<animationsEnabled, now, mountVars, wrapperVars>>

EngineCall(name) == animationsEnabled /\ Call(name)

(***************************************************************************)
(* Actions.                                                                *)
(***************************************************************************)
Init ==
    /\ animationsEnabled \in BOOLEAN
    /\ objs = <<>>
    /\ elementsRef = <<>>
    /\ currentGroupRef = 0
    /\ modeState = "parallel"
    /\ isGroupedState = FALSE
    /\ mode = "parallel"
    /\ isGrouped = FALSE
    /\ groupCacheRef = [totalGroups |-> 0, lastElementCount |-> 0]
    /\ enterCompleteCallbacks = <<>>
    /\ emphasisCompleteCallbacks = <<>>
    /\ exitCompleteCallbacks = <<>>
    /\ groupCompleteCallbacks = <<>>
    /\ timers = <<>>
    /\ now = 0
    /\ currentSlideAPI = FALSE
    /\ animationAPIRef = FALSE
    /\ currentIndex = 0
    /\ isFullScreen = FALSE
    /\ goNextIsFullScreen = FALSE
    /\ lastOp = Op("init")
    /\ ops = 0
    /\ staleTimers = 0
    /\ mountedSlides = {}
    /\ slideAPIOwner = NoSlide
    /\ manager = NewManager
    /\ wrappers = <<>>
    /\ reports = <<>>

AddElement ==
    \E id \in Ids, config \in Configs :
        /\ EngineCall("addElement")
        /\ Len(objs) < MaxObjs
        /\ Commit(addElement(Engine, id, config))
        /\ UNCHANGED <<reactVars, gateVars, deckVars>>

SetMode ==
    \E newMode \in Modes :
        /\ EngineCall("setMode")
        /\ modeState' = newMode
        /\ UNCHANGED <<engineVars, isGroupedState, mode, isGrouped, gateVars, deckVars>>

Start ==
    /\ EngineCall("start")
    /\ Commit(start(Engine, mode, now))
    /\ UNCHANGED <<reactVars, gateVars, deckVars>>

StartGrouped ==
    /\ EngineCall("startGrouped")
    /\ Commit(startGrouped(Engine, now))
    /\ isGroupedState' = TRUE
    /\ UNCHANGED <<modeState, mode, isGrouped, gateVars, deckVars>>

NextGroup ==
    /\ EngineCall("nextGroup")
    /\ Commit(nextGroup(Engine, now))
    /\ UNCHANGED <<reactVars, gateVars, deckVars>>

Emphasis ==
    /\ EngineCall("emphasis")
    /\ Commit(emphasis(Engine, now))
    /\ UNCHANGED <<reactVars, gateVars, deckVars>>

Exit ==
    /\ EngineCall("exit")
    /\ Commit(exit(Engine, now))
    /\ UNCHANGED <<reactVars, gateVars, deckVars>>

Skip ==
    /\ animationsEnabled
    /\ ops < MaxOps
    /\ ops' = ops + 1
    /\ lastOp' = [Op("skip") EXCEPT !.before =
                    [enter |-> enterCompleteCallbacks, emphasis |-> emphasisCompleteCallbacks,
                     exit |-> exitCompleteCallbacks, timers |-> timers,
                     entered |-> {i \in Range(elementsRef) : objs[i].enterCompleted}]]
    /\ Commit(skip(Engine))
    /\ UNCHANGED <<animationsEnabled, now, reactVars, gateVars, deckVars, staleTimers,
                   mountVars, wrapperVars>>

Reset ==
    /\ EngineCall("reset")
    /\ Commit(reset(Engine))
    /\ isGroupedState' = FALSE
    /\ UNCHANGED <<modeState, mode, isGrouped, gateVars, deckVars>>

OnEnterComplete ==
    /\ EngineCall("onEnterComplete")
    /\ Len(enterCompleteCallbacks) < MaxSubs
    /\ Commit([Engine EXCEPT !.enterCompleteCallbacks = Append(@, 0)])
    /\ UNCHANGED <<reactVars, gateVars, deckVars>>

OnEmphasisComplete ==
    /\ EngineCall("onEmphasisComplete")
    /\ Len(emphasisCompleteCallbacks) < MaxSubs
    /\ Commit([Engine EXCEPT !.emphasisCompleteCallbacks = Append(@, 0)])
    /\ UNCHANGED <<reactVars, gateVars, deckVars>>

OnExitComplete ==
    /\ EngineCall("onExitComplete")
    /\ Len(exitCompleteCallbacks) < MaxSubs
    /\ Commit([Engine EXCEPT !.exitCompleteCallbacks = Append(@, 0)])
    /\ UNCHANGED <<reactVars, gateVars, deckVars>>

OnGroupComplete ==
    /\ EngineCall("onGroupComplete")
    /\ Len(groupCompleteCallbacks) < MaxSubs
    /\ Commit([Engine EXCEPT !.groupCompleteCallbacks = Append(@, <<>>)])
    /\ UNCHANGED <<reactVars, gateVars, deckVars>>

\* the slide's setup effect calls one of start() / startGrouped(), once per mount
MountStart == ops = 0 /\ Start
MountStartGrouped == ops = 0 /\ StartGrouped

\* the user acts on a slide whose setup effect has run
Playing == ops > 0

RenderPending == modeState # mode \/ isGroupedState # isGrouped

\* React re-renders the hook: the closures now see the state last set
Render ==
    /\ RenderPending
    /\ mode' = modeState
    /\ isGrouped' = isGroupedState
    /\ UNCHANGED <<animationsEnabled, engineVars, modeState, isGroupedState, gateVars,
                   deckVars, now, lastOp, ops, staleTimers, mountVars, wrapperVars>>

\* the event loop runs the next due timer; a render scheduled earlier comes first
FireTimer ==
    /\ timers # <<>>
    /\ LET k == NextTimer(timers)
           tm == timers[k]
       IN  /\ tm.at > now => ~RenderPending
           /\ now' = Max(now, tm.at)
           /\ Commit(onTimer([Engine EXCEPT !.timers = RemoveAt(@, k)], tm,
                             Max(now, tm.at), isGrouped, mode))
           /\ staleTimers' = IF k <= staleTimers THEN staleTimers - 1 ELSE staleTimers
    /\ UNCHANGED <<animationsEnabled, reactVars, gateVars, deckVars, lastOp, ops, mountVars,
                   wrapperVars>>

RegisterAnimation ==
    /\ Call("registerAnimation")
    /\ Len(groupCompleteCallbacks) < MaxSubs
    /\ animationAPIRef' = TRUE
    /\ IF animationsEnabled
       THEN Commit([Engine EXCEPT !.groupCompleteCallbacks = Append(@, <<>>)])
       ELSE UNCHANGED engineVars
    /\ UNCHANGED <<reactVars, currentSlideAPI, deckVars>>

GateReset ==
    /\ Call("gateReset")
    /\ animationAPIRef' = FALSE
    /\ UNCHANGED <<engineVars, reactVars, currentSlideAPI, deckVars>>

HandleNextRequest ==
    /\ ops < MaxOps
    /\ ops' = ops + 1
    /\ LET r == handleNextRequest(Engine, animationAPIRef, now)
       IN  /\ Commit(r.s)
           /\ lastOp' = [Op("handleNextRequest") EXCEPT !.outcome = r.outcome,
                            !.calls = r.calls, !.pageChange = r.pageChange]
    /\ UNCHANGED <<animationsEnabled, now, reactVars, gateVars, deckVars, staleTimers,
                   mountVars, wrapperVars>>

SetCurrentSlideAPI ==
    \E api \in BOOLEAN :
        /\ Call("setCurrentSlideAPI")
        /\ currentSlideAPI' = api
        /\ UNCHANGED <<engineVars, reactVars, animationAPIRef, deckVars>>

SetFullScreen ==
    \E v \in BOOLEAN :
        /\ Call("setFullScreen")
        /\ isFullScreen' = v
        /\ UNCHANGED <<engineVars, reactVars, gateVars, currentIndex, goNextIsFullScreen>>

GoNext ==
    /\ ops < MaxOps
    /\ ops' = ops + 1
    /\ LET r == goNext(Engine, currentSlideAPI, now)
           d == IF r.outcome = "page-change"
                THEN slideChange(currentIndex, isFullScreen, goNextIsFullScreen)
                ELSE [currentIndex |-> currentIndex, isFullScreen |-> isFullScreen,
                      changed |-> FALSE]
       IN  /\ Commit(r.s)
           /\ currentIndex' = d.currentIndex
           /\ isFullScreen' = d.isFullScreen
           \* goNext is re-created, capturing isFullScreen, by the render that follows
           \* a change of currentIndex (its dependency list names no isFullScreen)
           /\ goNextIsFullScreen' = IF d.changed THEN isFullScreen ELSE goNextIsFullScreen
           /\ lastOp' = [Op("goNext") EXCEPT !.outcome = r.outcome, !.calls = r.calls,
                            !.pageChange = IF d.changed THEN 1 ELSE 0]
    /\ UNCHANGED <<animationsEnabled, now, reactVars, gateVars, staleTimers, mountVars, wrapperVars>>

(***************************************************************************)
(* The engine from its construction: registration, playback, skip, reset.  *)
(***************************************************************************)
Next ==
    \/ AddElement \/ SetMode \/ Start \/ StartGrouped \/ NextGroup \/ Emphasis \/ Exit
    \/ Skip \/ Reset \/ Render \/ FireTimer

Spec == Init /\ [][Next]_vars

(***************************************************************************)
(* A mounted slide: the state its setup effect leaves (elements registered *)
(* under the ids of IdSeq, one subscriber on each list, the mode set and   *)
(* rendered), before it calls start() or startGrouped().                   *)
(***************************************************************************)
EmptyEngine ==
    [objs |-> <<>>, elementsRef |-> <<>>, currentGroupRef |-> 0,
     groupCacheRef |-> [totalGroups |-> 0, lastElementCount |-> 0],
     enterCompleteCallbacks |-> <<>>, emphasisCompleteCallbacks |-> <<>>,
     exitCompleteCallbacks |-> <<>>, groupCompleteCallbacks |-> <<>>, timers |-> <<>>]

RECURSIVE Registered(_, _)
Registered(configs, n) ==
    IF n = 0 THEN EmptyEngine
    ELSE addElement(Registered(configs, n - 1), IdSeq[n], configs[n])

Subscribed(s) ==
    [s EXCEPT !.enterCompleteCallbacks = <<0>>, !.emphasisCompleteCallbacks = <<0>>,
              !.exitCompleteCallbacks = <<0>>, !.groupCompleteCallbacks = <<<<>>>>]

Mounted(configSet, sizes, modes) ==
    /\ animationsEnabled = TRUE
    /\ \E n \in sizes : \E configs \in [1..n -> configSet] :
        LET s == Subscribed(Registered(configs, n))
        IN  /\ objs = s.objs
            /\ elementsRef = s.elementsRef
            /\ currentGroupRef = s.currentGroupRef
            /\ groupCacheRef = s.groupCacheRef
            /\ enterCompleteCallbacks = s.enterCompleteCallbacks
            /\ emphasisCompleteCallbacks = s.emphasisCompleteCallbacks
            /\ exitCompleteCallbacks = s.exitCompleteCallbacks
            /\ groupCompleteCallbacks = s.groupCompleteCallbacks
            /\ timers = s.timers
    /\ modeState \in modes
    /\ mode = modeState
    /\ isGroupedState = FALSE
    /\ isGrouped = FALSE
    /\ now = 0
    /\ currentSlideAPI = FALSE
    /\ animationAPIRef = FALSE
    /\ currentIndex = 0
    /\ isFullScreen = FALSE
    /\ goNextIsFullScreen = FALSE
    /\ lastOp = Op("init")
    /\ ops = 0
    /\ staleTimers = 0
    /\ mountedSlides = {}
    /\ slideAPIOwner = NoSlide
    /\ manager = NewManager
    /\ wrappers = <<>>
    /\ reports = <<>>

EnterOnly(enters, groups) ==
    [ref : {TRUE}, enter : enters, emphasis : {NoAnim}, exit : {NoAnim}, group : groups]

\* grouped playback driven by the user: startGrouped() once, nextGroup(), timers
InitGrouped ==
    Mounted(EnterOnly({Anim(500, 0), Anim(800, 200)}, {0, 1}), {2, 3}, Modes)

NextGrouped == MountStartGrouped \/ (Playing /\ NextGroup) \/ Render \/ FireTimer

SpecGrouped == InitGrouped /\ [][NextGrouped]_vars

\* sequential grouped playback left to itself
InitSeq ==
    Mounted(EnterOnly({NoAnim, Anim(500, 0), Anim(600, 0), Anim(800, 200), Anim(900, 0)},
                      {0, 1, 2}), {2, 3}, {"sequential"})

NextSeq == MountStartGrouped \/ Render \/ FireTimer

SpecSeq == InitSeq /\ [][NextSeq]_vars

\* playback of a mounted slide with its emphasis and exit phases, and skip()
PlayConfigs ==
    [ref : {TRUE}, enter : {Anim(500, 0), Anim(800, 200)}, emphasis : LaterChoices,
     exit : LaterChoices, group : {0, 1}]

\* two elements; the first registered element opens the first group
InitPlay == Mounted(PlayConfigs, {2}, Modes) /\ objs[1].group = 0

NextPlay ==
    \/ MountStart \/ MountStartGrouped
    \/ (Playing /\ NextGroup) \/ (Playing /\ Emphasis) \/ (Playing /\ Exit)
    \/ (Playing /\ Skip) \/ Render \/ FireTimer

SpecPlay == InitPlay /\ [][NextPlay]_vars

\* a mounted slide and the two navigation gates
GateConfigs ==
    [ref : {TRUE}, enter : {Anim(600, 0)}, emphasis : LaterChoices,
     exit : LaterChoices, group : {0, 1}]

\* with animations disabled the slide's hook is the no-op api and registers nothing
InitGate == Mounted(GateConfigs, {1, 2}, Modes) \/ (Init /\ ~animationsEnabled)

NextGate ==
    \/ MountStartGrouped \/ Render \/ FireTimer \/ RegisterAnimation \/ GateReset
    \/ HandleNextRequest \/ SetCurrentSlideAPI \/ SetFullScreen \/ GoNext

SpecGate == InitGate /\ [][NextGate]_vars

\* the engine from its construction with the gate of useSlideGroupedAnimation on it
NextNav ==
    \/ AddElement \/ StartGrouped \/ NextGroup \/ Skip \/ Reset \/ Render \/ FireTimer
    \/ RegisterAnimation \/ GateReset \/ HandleNextRequest

SpecNav == Init /\ [][NextNav]_vars

\* the engine with element animations disabled: every operation is noopApi's
NoopNames ==
    {"addElement", "setMode", "start", "startGrouped", "nextGroup", "emphasis", "exit",
     "skip", "reset", "onEnterComplete", "onEmphasisComplete", "onExitComplete",
     "onGroupComplete"}

NoopCall ==
    /\ ~animationsEnabled
    /\ \E name \in NoopNames : Call(name)
    /\ UNCHANGED <<engineVars, reactVars, gateVars, deckVars>>

InitDisabled == Init /\ ~animationsEnabled

NextDisabled ==
    \/ NoopCall \/ RegisterAnimation \/ GateReset \/ HandleNextRequest
    \/ SetCurrentSlideAPI \/ SetFullScreen \/ GoNext

SpecDisabled == InitDisabled /\ [][NextDisabled]_vars

\* a mounted slide played by start() and left to its timers
StartConfigs ==
    [ref : {TRUE}, enter : {NoAnim, Anim(500, 0), Anim(800, 200)}, emphasis : {NoAnim},
     exit : {NoAnim}, group : {NoGroup, 0, 1}]

InitStart == Mounted(StartConfigs, {2}, Modes)

NextStart == MountStart \/ FireTimer

SpecStart == InitStart /\ [][NextStart]_vars

\* grouped playback of a slide whose group tags need not be 0..n-1, advanced by
\* nextGroup() for as long as isAllGroupsComplete() is false
InitTags == Mounted(EnterOnly({Anim(500, 0), Anim(800, 200)}, {0, 1, 2}), {2}, Modes)

NextGroupUntilComplete == Playing /\ ~isAllGroupsComplete(Engine) /\ NextGroup

NextTags == MountStartGrouped \/ NextGroupUntilComplete \/ Render \/ FireTimer

SpecTags == InitTags /\ [][NextTags]_vars

\* grouped playback of a mounted slide on which startGrouped() is called again
InitRestart == Mounted(EnterOnly({Anim(500, 0), Anim(800, 200)}, {0, 1}), {1, 2}, Modes)

NextRestart == MountStartGrouped \/ (Playing /\ StartGrouped) \/ Render \/ FireTimer

SpecRestart == InitRestart /\ [][NextRestart]_vars

\* grouped playback started in parallel mode, with setMode() called during it
InitSetMode == Mounted(EnterOnly({Anim(500, 0), Anim(800, 200)}, {0, 1}), {2}, {"parallel"})

NextSetMode == MountStartGrouped \/ (Playing /\ SetMode) \/ Render \/ FireTimer

SpecSetMode == InitSetMode /\ [][NextSetMode]_vars

\* a mounted slide is played and emphasis() is called once, at any moment of the
\* enter phase
EmphasisConfigs ==
    [ref : {TRUE}, enter : {Anim(500, 0)}, emphasis : {NoAnim, Anim(500, 0), Anim(800, 0)},
     exit : {NoAnim}, group : {0, 1}]

InitEmphasis == Mounted(EmphasisConfigs, {2}, Modes)

EmphasisOnce == ops = 1 /\ Emphasis

NextEmphasis == MountStart \/ MountStartGrouped \/ EmphasisOnce \/ Render \/ FireTimer

SpecEmphasis == InitEmphasis /\ [][NextEmphasis]_vars

\* playback of one element whose descriptors carry delays
InitDelay ==
    Mounted([ref : {TRUE}, enter : {Anim(500, 0), Anim(500, 200)},
             emphasis : {NoAnim, Anim(500, 0), Anim(500, 200)},
             exit : {NoAnim, Anim(500, 0), Anim(500, 200)}, group : {0}], {1}, Modes)

NextDelay ==
    \/ MountStart \/ MountStartGrouped \/ (Playing /\ Emphasis) \/ (Playing /\ Exit)
    \/ Render \/ FireTimer

SpecDelay == InitDelay /\ [][NextDelay]_vars

\* The slide components of the page. Each instance has an engine of its own; its
\* setup effect stores that engine in useAppStore.currentSlideAPI and its cleanup
\* resets the engine and stores null.
effectSetup(owner, place) == place

\* variant: the cleanup leaves the handle as it is
effectCleanupKeepsHandle(owner, place) == owner

effectCleanup(owner, place) == NoSlide

MountSlide ==
    \E place \in Places \ mountedSlides :
        /\ ops < MaxOps
        /\ ops' = ops + 1
        /\ lastOp' = Op("mount")
        /\ mountedSlides' = mountedSlides \cup {place}
        /\ slideAPIOwner' = effectSetup(slideAPIOwner, place)
        /\ UNCHANGED <<animationsEnabled, engineVars, reactVars, gateVars, deckVars, now,
                       staleTimers, wrapperVars>>

UnmountSlide ==
    \E place \in mountedSlides :
        /\ ops < MaxOps
        /\ ops' = ops + 1
        /\ lastOp' = Op("unmount")
        /\ mountedSlides' = mountedSlides \ {place}
        /\ slideAPIOwner' = effectCleanup(slideAPIOwner, place)
        /\ UNCHANGED <<animationsEnabled, engineVars, reactVars, gateVars, deckVars, now,
                       staleTimers, wrapperVars>>

NextMounts == MountSlide \/ UnmountSlide

SpecMounts == Init /\ [][NextMounts]_vars

\* The wrapper of one element id inside a SlideAnimationManager: the manager's
\* controls, the mount and unmount of the wrapper, and the clock of its timers.
\* A state update re-renders the wrapper; the effects of that render are a step
\* of their own (WrapperCommit), taken before any other step.
WrapperProps ==
    {[enter |-> NoAnim, emphasis |-> NoAnim, exit |-> NoAnim],
     [enter |-> NoAnim, emphasis |-> Anim(300, 0), exit |-> NoAnim],
     [enter |-> Anim(300, 100), emphasis |-> Anim(300, 0), exit |-> NoAnim]}

MountedWrappers == {i \in DOMAIN wrappers : wrappers[i].mounted}
PendingWrappers == {i \in DOMAIN wrappers : wrappers[i].timerRef.kind # "none"}

\* the registration the manager's entry belongs to: the mounted instance, or 0
Registration == IF MountedWrappers = {} THEN 0 ELSE CHOOSE i \in MountedWrappers : TRUE

engineSide ==
    <<animationsEnabled, engineVars, reactVars, gateVars, deckVars, lastOp, ops,
      staleTimers, mountVars>>

\* a render has left an effect of a mounted wrapper to run
EffectsPending ==
    \E i \in DOMAIN wrappers : wrapperEffects(wrappers[i], manager, now) # wrappers[i]

\* the effects of the commit run before anything else happens
WrapperCommit ==
    /\ EffectsPending
    /\ wrappers' = [i \in DOMAIN wrappers |-> wrapperEffects(wrappers[i], manager, now)]
    /\ UNCHANGED <<engineSide, now, manager, reports>>

MountWrapper ==
    \E props \in WrapperProps :
        /\ ~EffectsPending
        /\ MountedWrappers = {}
        /\ Len(wrappers) < MaxMounts
        /\ manager' = registerElement(manager)
        /\ wrappers' = Append(wrappers, NewWrapper(props))
        /\ UNCHANGED <<engineSide, now, reports>>

UnmountWrapper ==
    \E i \in MountedWrappers :
        /\ ~EffectsPending
        /\ manager' = unregisterElement(manager)
        /\ wrappers' = [wrappers EXCEPT ![i].mounted = FALSE]
        /\ UNCHANGED <<engineSide, now, reports>>

StartSlideAnimations ==
    /\ ~EffectsPending
    /\ ~manager.isVisible
    /\ manager' = [manager EXCEPT !.isVisible = TRUE]
    /\ UNCHANGED <<engineSide, now, wrappers, reports>>

StartExitAnimations ==
    /\ ~EffectsPending
    /\ ~manager.shouldExit
    /\ manager' = [manager EXCEPT !.shouldExit = TRUE]
    /\ UNCHANGED <<engineSide, now, wrappers, reports>>

TriggerEmphasisAnimations ==
    /\ ~EffectsPending
    /\ manager.triggerEmphasis < MaxTrigger
    /\ manager' = [manager EXCEPT !.triggerEmphasis = @ + 1]
    /\ UNCHANGED <<engineSide, now, wrappers, reports>>

FireWrapperTimer ==
    \E i \in PendingWrappers :
        LET w == wrappers[i]
            kind == w.timerRef.kind
            told == WrapperReports(w)
        IN  /\ ~EffectsPending
            /\ \A j \in PendingWrappers : w.timerRef.at <= wrappers[j].timerRef.at
            /\ now' = Max(now, w.timerRef.at)
            /\ manager' = IF told THEN onElementComplete(manager, kind) ELSE manager
            /\ reports' = IF told /\ kind = "enter"
                          THEN Append(reports, [at |-> now', by |-> i,
                                                registration |-> Registration])
                          ELSE reports
            /\ wrappers' = [wrappers EXCEPT ![i] = onWrapperTimer(w)]
            /\ UNCHANGED engineSide

WrapperTick ==
    /\ ~EffectsPending
    /\ now < MaxTicks * TickMs
    /\ \A j \in PendingWrappers : now + TickMs <= wrappers[j].timerRef.at
    /\ now' = now + TickMs
    /\ UNCHANGED <<engineSide, wrapperVars>>

InitWrapper == Init /\ animationsEnabled

NextWrapper ==
    \/ MountWrapper \/ UnmountWrapper \/ StartSlideAnimations \/ StartExitAnimations
    \/ TriggerEmphasisAnimations \/ WrapperCommit \/ FireWrapperTimer \/ WrapperTick

SpecWrapper == InitWrapper /\ [][NextWrapper]_vars

\* a mounted slide that is unmounted (reset()) and set up again on the same engine
RemountConfigs == EnterOnly({Anim(500, 0), Anim(800, 200)}, {NoGroup, 0})

InitRemount == Mounted(RemountConfigs, {1}, Modes)

NextRemount ==
    \/ MountStart \/ MountStartGrouped
    \/ (Playing /\ Reset) \/ (Playing /\ AddElement) \/ (Playing /\ SetMode)
    \/ (Playing /\ OnEnterComplete) \/ (Playing /\ OnGroupComplete)
    \/ (Playing /\ Start) \/ (Playing /\ StartGrouped)
    \/ Render \/ FireTimer

SpecRemount == InitRemount /\ [][NextRemount]_vars

(***************************************************************************)
(* Claims.                                                                 *)
(***************************************************************************)
Registry == Range(elementsRef)

NoRepeatedGroup(log) ==
    \A i, j \in 1..Len(log) : i # j => log[i].group # log[j].group

\* C1: within one playback cycle every onGroupComplete subscriber is invoked at most
\* once for a group, and only for groups whose registered elements have all entered.
C1_GroupCompleteAtMostOnce ==
    \A k \in 1..Len(groupCompleteCallbacks) :
        /\ NoRepeatedGroup(groupCompleteCallbacks[k])
        /\ \A i \in 1..Len(groupCompleteCallbacks[k]) : \A o \in Registry :
            objs[o].group = groupCompleteCallbacks[k][i].group => objs[o].enterCompleted

\* the notifications a subscriber list received since the latest call, a skip()
NotifiedOnceSinceSkip(cbs, before) ==
    \A k \in 1..Len(cbs) : cbs[k] = before[k] + 1

CompletionTimer(tm) == tm.kind \in {"enter", "enterAll", "emphasis", "exit"}

\* skip() found completion timers pending, and every timer has fired since
C2_StaleTimersFired ==
    /\ lastOp.name = "skip"
    /\ timers = <<>>
    /\ \E k \in 1..Len(lastOp.before.timers) : CompletionTimer(lastOp.before.timers[k])

\* C2: when skip() is called with completion timers pending and those timers have all
\* fired, each onEnterComplete, onEmphasisComplete and onExitComplete subscriber has
\* been notified exactly once by the skip and its stale timers together.
C2_SkipThenStaleTimersNotifyOnce ==
    C2_StaleTimersFired
    => /\ NotifiedOnceSinceSkip(enterCompleteCallbacks, lastOp.before.enter)
       /\ NotifiedOnceSinceSkip(emphasisCompleteCallbacks, lastOp.before.emphasis)
       /\ NotifiedOnceSinceSkip(exitCompleteCallbacks, lastOp.before.exit)

\* the step is an advance request made through the named gate
AdvanceStep(name) == ops' = ops + 1 /\ lastOp'.name = name

IncompleteGroups == apiGetCurrentGroup(Engine) < apiGetTotalGroups(Engine) - 1

AdvancedOneGroup ==
    /\ lastOp'.outcome = "animation"
    /\ lastOp'.calls = <<"nextGroup">>
    /\ lastOp'.pageChange = 0
    /\ currentIndex' = currentIndex
    /\ currentGroupRef' = currentGroupRef + 1

\* C3: while the active engine has incomplete groups (currentGroup < totalGroups - 1),
\* an advance request through either gate (handleNextRequest with the engine
\* registered, goNext with the engine as currentSlideAPI) calls nextGroup() exactly
\* once and nothing else, reports 'animation', moves the engine to the next group and
\* changes no page, whatever emphasis or exit descriptors the elements carry.
C3_IncompleteGroupsAdvanceGroup ==
    [][/\ (AdvanceStep("handleNextRequest") /\ animationAPIRef /\ IncompleteGroups)
            => AdvancedOneGroup
       /\ (AdvanceStep("goNext") /\ currentSlideAPI /\ IncompleteGroups)
            => AdvancedOneGroup]_vars

C3_GoNextAdvancedPastPendingEmphasis ==
    /\ lastOp.name = "goNext"
    /\ lastOp.calls = <<"nextGroup">>
    /\ currentGroupRef = 1
    /\ \E o \in Registry : objs[o].emphasis.has /\ ~objs[o].emphasisCompleted
    /\ \E o \in Registry : objs[o].exit.has /\ ~objs[o].exitCompleted

Started(o) ==
    \/ objs[o].currentAnimation = "enter"
    \/ objs[o].enterCompleted
    \/ \E k \in 1..Len(timers) : timers[k].kind = "enter" /\ timers[k].obj = o

GroupNotified(g) ==
    \A k \in 1..Len(groupCompleteCallbacks) :
        \E i \in 1..Len(groupCompleteCallbacks[k]) : groupCompleteCallbacks[k][i].group = g

\* C4: in sequential grouped playback started by startGrouped(), an element of a
\* group g >= 1 has its enter animation started (it is entering, has entered, or an
\* enter timer is pending for it) only after the onGroupComplete subscribers were
\* invoked for group g - 1.
C4_NextGroupWaitsForGroupComplete ==
    \A o \in Registry :
        (objs[o].group >= 1 /\ Started(o)) => GroupNotified(objs[o].group - 1)

C4_ThirdGroupStartedAfterSecond ==
    /\ GroupsOf(Engine) = {0, 1, 2}
    /\ \E o \in Registry :
        /\ objs[o].group = 2
        /\ ~objs[o].enterCompleted
        /\ \E k \in 1..Len(timers) : timers[k].kind = "enter" /\ timers[k].obj = o
    /\ GroupNotified(0) /\ GroupNotified(1)

StaysCompleted(old, new) ==
    /\ old.enterCompleted => new.enterCompleted
    /\ old.emphasisCompleted => new.emphasisCompleted
    /\ old.exitCompleted => new.exitCompleted

\* the object registered under an id, 0 when there is none
EntryOf(os, registry, id) ==
    LET hits == {o \in Range(registry) : os[o].id = id}
    IN  IF hits = {} THEN 0 ELSE CHOOSE o \in hits : TRUE

ResetStep == ops' = ops + 1 /\ lastOp'.name = "reset"

\* C5 as stated: for every element id, a completion flag that is true stays true
\* under every step that is not reset(), re-registration of the id included.
C5_FlagsMonotonicPerId ==
    [][~ResetStep =>
        \A id \in Ids :
            EntryOf(objs, elementsRef, id) # 0 =>
                /\ EntryOf(objs', elementsRef', id) # 0
                /\ StaysCompleted(objs[EntryOf(objs, elementsRef, id)],
                                  objs'[EntryOf(objs', elementsRef', id)])]_vars

\* C5: a completion flag (enterCompleted, emphasisCompleted, exitCompleted) of a
\* registered entry that is true stays true for as long as that entry is registered:
\* until reset() clears the registry or addElement replaces the entry under its id.
C5_FlagsMonotonicPerEntry ==
    [][\A o \in Range(elementsRef) \cap Range(elementsRef') :
            StaysCompleted(objs[o], objs'[o])]_vars

C5_EnteredElementReplayed ==
    /\ lastOp.name = "start"
    /\ \E o \in Registry : objs[o].enterCompleted /\ objs[o].currentAnimation = "enter"

NewTimers == SubSeq(timers', Len(timers) + 1, Len(timers'))

\* C6: a call of emphasis() leaves every element whose enterCompleted is false as it
\* was (not emphasizing, emphasisCompleted unchanged) and schedules no timer for it.
C6_EmphasisOnlyAfterEnter ==
    [][AdvanceStep("emphasis") =>
        \A i \in DOMAIN objs :
            ~objs[i].enterCompleted =>
                /\ objs'[i] = objs[i]
                /\ \A k \in 1..Len(NewTimers) : NewTimers[k].obj # i]_vars

C6_EmphasisSkippedUnenteredElement ==
    /\ lastOp.name = "emphasis"
    /\ \E i, j \in Registry :
        /\ objs[i].emphasis.has /\ ~objs[i].enterCompleted
        /\ objs[i].currentAnimation # "emphasis" /\ ~objs[i].emphasisCompleted
        /\ objs[j].currentAnimation = "emphasis"
    /\ \E k \in 1..Len(timers) : timers[k].kind = "emphasis"

\* C7: with no engine registered with the gate, handleNextRequest() reports
\* 'page-change', invokes onPageChange exactly once, calls no engine operation and
\* leaves the engine as it was.
C7_UnregisteredGateChangesPage ==
    [][(AdvanceStep("handleNextRequest") /\ ~animationAPIRef) =>
        /\ lastOp'.outcome = "page-change"
        /\ lastOp'.pageChange = 1
        /\ lastOp'.calls = <<>>
        /\ UNCHANGED engineVars]_vars

\* after registerAnimation and the gate's reset(), on an engine with a group to go
C7_PageChangedAfterGateReset ==
    /\ lastOp.name = "handleNextRequest"
    /\ lastOp.outcome = "page-change"
    /\ ~animationAPIRef
    /\ Len(groupCompleteCallbacks) = 2
    /\ ~isAllGroupsComplete(Engine)

GroupMembers(g) == {o \in Registry : objs[o].group = g}

\* duration + delay of the slowest member of a group
SlowestMember(g) ==
    CHOOSE m \in {EnterTime(objs[o]) : o \in GroupMembers(g)} :
        \A o \in GroupMembers(g) : EnterTime(objs[o]) <= m

\* the instant group g completes when every group starts as the one before it completes
RECURSIVE CompletesAt(_)
CompletesAt(g) == IF g < 0 THEN 0 ELSE CompletesAt(g - 1) + SlowestMember(g)

NGroups == Cardinality(GroupsOf(Engine))

ExpectedLog ==
    [k \in 1..NGroups |->
        [group |-> k - 1, isLastGroup |-> (k = NGroups), at |-> CompletesAt(k - 1)]]

IsPrefix(a, b) == Len(a) <= Len(b) /\ \A i \in 1..Len(a) : a[i] = b[i]

\* startGrouped() was the only call, in sequential mode, on groups 0..n-1 whose
\* elements all carry an enter descriptor
SequentialRun ==
    /\ lastOp.name = "startGrouped"
    /\ modeState = "sequential"
    /\ GroupsOf(Engine) = 0..(NGroups - 1)
    /\ \A o \in Registry : objs[o].group # NoGroup /\ ShouldStartEnter(objs[o])

SkippedRightAfterStartGrouped ==
    /\ lastOp.name = "skip"
    /\ ops = 2
    /\ isGroupedState
    /\ lastOp.before.entered = {}

\* C9: when skip() is the call right after startGrouped() and no element had entered
\* yet (the deferred start of group 0 may or may not have run), every onEnterComplete,
\* onEmphasisComplete and onExitComplete subscriber is invoked exactly once overall,
\* every registered element has its three flags set, and no enter timer is scheduled
\* after the skip.
C9_SkipRightAfterStartGrouped ==
    SkippedRightAfterStartGrouped =>
        /\ \A k \in 1..Len(enterCompleteCallbacks) : enterCompleteCallbacks[k] = 1
        /\ \A k \in 1..Len(emphasisCompleteCallbacks) : emphasisCompleteCallbacks[k] = 1
        /\ \A k \in 1..Len(exitCompleteCallbacks) : exitCompleteCallbacks[k] = 1
        /\ \A o \in Registry :
            objs[o].enterCompleted /\ objs[o].emphasisCompleted /\ objs[o].exitCompleted
        /\ \A k \in 1..Len(timers) :
            timers[k].kind = "enter" =>
                \E j \in 1..Len(lastOp.before.timers) : lastOp.before.timers[j] = timers[k]

EnterOnlySingleGroup ==
    /\ Registry # {}
    /\ \A o \in Registry :
        objs[o].enter.has /\ ~objs[o].emphasis.has /\ ~objs[o].exit.has
    /\ CountGroups(Engine) = 1

\* C10: for an engine whose elements carry only enter descriptors, in a single group,
\* isEmphasisComplete() and isExitComplete() are true in every state, and a goNext
\* holding that engine calls neither nextGroup(), emphasis() nor exit(): it reaches the
\* slide change, moving to the next slide when there is one.
C10_EnterOnlyFallsThrough ==
    EnterOnlySingleGroup =>
        /\ apiIsEmphasisComplete(Engine)
        /\ apiIsExitComplete(Engine)
        /\ (lastOp.name = "goNext" /\ currentSlideAPI) =>
            /\ lastOp.outcome = "page-change"
            /\ lastOp.calls = <<>>
            /\ lastOp.pageChange = 1 \/ currentIndex = TotalSlides - 1

C10_SlideChangedAfterEnter ==
    /\ EnterOnlySingleGroup
    /\ \A o \in Registry : objs[o].enterCompleted
    /\ currentSlideAPI
    /\ lastOp.name = "goNext"
    /\ lastOp.pageChange = 1
    /\ currentIndex = 1

DeckUnchanged == currentIndex' = currentIndex /\ isFullScreen' = isFullScreen

\* the one action goNext takes, by first match
PerformedByGoNext ==
    IF ~apiIsAllGroupsComplete(Engine)
    THEN lastOp'.calls = <<"nextGroup">> /\ DeckUnchanged
    ELSE IF ~apiIsEmphasisComplete(Engine)
    THEN lastOp'.calls = <<"emphasis">> /\ DeckUnchanged
    ELSE IF ~apiIsExitComplete(Engine)
    THEN lastOp'.calls = <<"exit">> /\ DeckUnchanged
    ELSE /\ lastOp'.calls = <<>>
         /\ UNCHANGED <<objs, timers, currentGroupRef>>
         /\ IF currentIndex < TotalSlides - 1
            THEN currentIndex' = currentIndex + 1 /\ isFullScreen' = isFullScreen
            ELSE currentIndex' = currentIndex /\ isFullScreen' = FALSE

\* C11: a goNext that holds an engine performs exactly one action, the first that
\* applies of: nextGroup() while isAllGroupsComplete() is false, emphasis() while
\* isEmphasisComplete() is false, exit() while isExitComplete() is false, the slide
\* change otherwise (the next index when there is one; on the last slide the index
\* stays and full-screen mode, when active, is left). The index stays in
\* 0..TotalSlides-1.
C11_GoNextPriorityChain ==
    [][(AdvanceStep("goNext") /\ currentSlideAPI) =>
        /\ PerformedByGoNext
        /\ currentIndex' \in 0..(TotalSlides - 1)]_vars

Outcomes == {"page-change", "animation"}

\* C12: in every reachable state of the engine (elements registered by addElement,
\* currentGroup moved by startGrouped, nextGroup, auto-advance, skip, reset) a
\* handleNextRequest() would answer 'page-change' or 'animation', and every one made
\* did: never 'blocked'.
C12_NeverBlocked ==
    /\ \A registered \in BOOLEAN :
        handleNextRequest(Engine, registered, now).outcome \in Outcomes
    /\ lastOp.name = "handleNextRequest" => lastOp.outcome \in Outcomes

\* the request that moved a registered engine onto its last group
C12_AdvancedToLastGroup ==
    /\ lastOp.name = "handleNextRequest"
    /\ lastOp.outcome = "animation"
    /\ animationAPIRef
    /\ currentGroupRef = getTotalGroups(Engine) - 1
    /\ currentGroupRef = 1

EnterAnimationsDone == \A o \in Registry : objs[o].enter.has => objs[o].enterCompleted

\* C13: with animations enabled, a goNext or handleNextRequest that holds the engine
\* requests a slide change only in a state where every registered element with an
\* enter descriptor has enterCompleted.
C13_PageChangeOnlyAfterEnter ==
    [][/\ (AdvanceStep("goNext") /\ currentSlideAPI /\ animationsEnabled
            /\ lastOp'.pageChange = 1) => EnterAnimationsDone
       /\ (AdvanceStep("handleNextRequest") /\ animationAPIRef /\ animationsEnabled
            /\ lastOp'.pageChange = 1) => EnterAnimationsDone]_vars

callbackVars == <<enterCompleteCallbacks, emphasisCompleteCallbacks, exitCompleteCallbacks,
                  groupCompleteCallbacks>>

\* the elements nextGroup() is to animate: the registered members of a group that
\* have an enter descriptor and have not entered
ToEnter(g) ==
    {o \in Registry : objs[o].group = g /\ ShouldStartEnter(objs[o]) /\ ~objs[o].enterCompleted}

\* C14: nextGroup() at or past the last group (currentGroup >= totalGroups - 1, an
\* engine without grouped elements included) changes nothing; otherwise it moves
\* currentGroup to the next group, schedules one enter timer for each not-yet-entered
\* member of that group and for no other element, marks those members entering, and
\* invokes no subscriber.
C14_NextGroupFrame ==
    [][AdvanceStep("nextGroup") =>
        IF currentGroupRef >= getTotalGroups(Engine) - 1
        THEN UNCHANGED <<currentGroupRef, objs, timers, callbackVars>>
        ELSE /\ currentGroupRef' = currentGroupRef + 1
             /\ {NewTimers[k].obj : k \in 1..Len(NewTimers)} = ToEnter(currentGroupRef + 1)
             /\ Len(NewTimers) = Cardinality(ToEnter(currentGroupRef + 1))
             /\ \A k \in 1..Len(NewTimers) : NewTimers[k].kind = "enter"
             /\ SubSeq(timers', 1, Len(timers)) = timers
             /\ \A i \in DOMAIN objs :
                    objs'[i] = IF i \in ToEnter(currentGroupRef + 1)
                               THEN [objs[i] EXCEPT !.currentAnimation = "enter"]
                               ELSE objs[i]
             /\ UNCHANGED callbackVars]_vars

\* C15: currentGroup is never negative, and while grouped playback is active (from
\* startGrouped() to the next reset()) no step decreases it.
C15_CurrentGroupMonotonic ==
    [][/\ currentGroupRef >= 0 /\ currentGroupRef' >= 0
       /\ (isGroupedState /\ ~ResetStep) => currentGroupRef' >= currentGroupRef]_vars

\* C16: the state reset() leaves has an empty registry, four empty subscriber lists,
\* currentGroup 0, the grouped flag false, getTotalGroups() = 0, and no completion
\* timer pending.
C16_ResetFrame ==
    [][ResetStep =>
        /\ elementsRef' = <<>>
        /\ enterCompleteCallbacks' = <<>> /\ emphasisCompleteCallbacks' = <<>>
        /\ exitCompleteCallbacks' = <<>> /\ groupCompleteCallbacks' = <<>>
        /\ currentGroupRef' = 0
        /\ isGroupedState' = FALSE
        /\ getTotalGroups(Engine)' = 0
        /\ \A k \in 1..Len(timers') : ~CompletionTimer(timers'[k])]_vars

\* the step runs a timer that was scheduled before the last reset()
StaleTimerFires == staleTimers' = staleTimers - 1

\* C17: a timer scheduled before reset() that fires after it invokes no subscriber,
\* leaves currentGroup as it is, schedules no timer (starts no animation) and changes
\* no registered element.
C17_StaleTimerHasNoEffect ==
    [][StaleTimerFires =>
        /\ UNCHANGED callbackVars
        /\ currentGroupRef' = currentGroupRef
        /\ Len(timers') = Len(timers) - 1
        /\ \A o \in Registry : objs'[o] = objs[o]]_vars

\* the state of useSlideAnimation right after construction (part_000:127-137)
AsNewlyConstructed ==
    /\ elementsRef = <<>>
    /\ callbackVars = <<<<>>, <<>>, <<>>, <<>>>>
    /\ currentGroupRef = 0
    /\ groupCacheRef = [totalGroups |-> 0, lastElementCount |-> 0]
    /\ modeState = "parallel"
    /\ isGroupedState = FALSE
    /\ timers = <<>>

\* C18: reset() leaves the engine in the state of a newly constructed one (default
\* mode parallel, nothing registered, subscribed or pending), so that whatever is
\* applied next behaves as on a fresh instance.
C18_ResetAsNewlyConstructed ==
    [][ResetStep => AsNewlyConstructed']_vars

SkipStep == ops' = ops + 1 /\ lastOp'.name = "skip"

\* C19: right after skip() the three completion queries are true, and an advance
\* request (goNext, handleNextRequest) made then is a page change, whatever
\* currentGroup was.
C19_SkipUnblocksNavigation ==
    [][SkipStep =>
        /\ isAllGroupsComplete(Engine)'
        /\ isEmphasisComplete(Engine)'
        /\ isExitComplete(Engine)'
        /\ handleNextRequest(Engine, TRUE, now).outcome' = "page-change"
        /\ goNext(Engine, TRUE, now).outcome' = "page-change"]_vars

C21_HandleRefersToMountedSlide ==
    slideAPIOwner # NoSlide => slideAPIOwner \in mountedSlides

\* a slide was unmounted earlier and the handle is held by a slide mounted after it
C21_HandleHeldAfterAnUnmount ==
    /\ slideAPIOwner # NoSlide
    /\ lastOp.name = "mount"
    /\ Cardinality(mountedSlides) < ops

UnmountStep == ops' = ops + 1 /\ lastOp'.name = "unmount"

\* C22: the unmount of one slide instance leaves the handle alone when it belongs to
\* another slide that is still mounted.
C22_UnmountKeepsOthersHandle ==
    [][(UnmountStep /\ slideAPIOwner \in mountedSlides') => slideAPIOwner' = slideAPIOwner]_vars

\* start() was called and every timer it led to has fired
StartSettled == lastOp.name = "start" /\ timers = <<>>

\* C23: once start() has run its course, in either mode, every registered element
\* with an enter descriptor has enterCompleted set, grouped or not.
C23_StartCompletesEveryEnter ==
    StartSettled => \A i \in Registry : objs[i].enter.has => objs[i].enterCompleted

WithEnter == {i \in Registry : objs[i].enter.has}
EnterNotified(n) == \A k \in 1..Len(enterCompleteCallbacks) : enterCompleteCallbacks[k] = n

\* C24: after start() the onEnterComplete subscribers are invoked at most once and
\* never while an element with an enter descriptor is incomplete; once start() has run
\* its course on a slide with some enter descriptor they have been invoked exactly
\* once, elements without an enter descriptor notwithstanding.
C24_EnterCompleteOnceAfterStart ==
    lastOp.name = "start" =>
        /\ EnterNotified(0) \/ EnterNotified(1)
        /\ ~EnterNotified(0) => \A i \in WithEnter : objs[i].enterCompleted
        /\ (timers = <<>> /\ WithEnter # {}) => EnterNotified(1)

AllGrouped == \A i \in Registry : objs[i].group # NoGroup

\* C25: in grouped playback of a slide whose elements all belong to groups, a step
\* that invokes the onEnterComplete subscribers leaves every element with an enter
\* descriptor completed.
C25_EnterCompleteMeansAllEntered ==
    [][(AllGrouped /\ enterCompleteCallbacks' # enterCompleteCallbacks)
            => \A i \in WithEnter : objs'[i].enterCompleted]_vars

\* startGrouped() and the nextGroup() calls have brought isAllGroupsComplete() to true
\* and every timer has fired
GroupedPlaybackSettled ==
    /\ lastOp.name \in {"startGrouped", "nextGroup"}
    /\ isAllGroupsComplete(Engine)
    /\ timers = <<>>

\* C26: whatever the group tags, once grouped playback has been advanced to
\* isAllGroupsComplete() and its timers have fired, every element with a group tag and
\* an enter descriptor has enterCompleted set.
C26_AnyTagsAllEntered ==
    GroupedPlaybackSettled =>
        \A i \in WithEnter : objs[i].group # NoGroup => objs[i].enterCompleted

\* the step runs the timer callback that is due next
TimerStep == ops' = ops /\ timers # <<>> /\ timers' # timers
FiredTimer == timers[NextTimer(timers)]
TimersAdded == SubSeq(timers', Len(timers), Len(timers'))

C28_SecondStartGroupedIdempotent ==
    [][/\ (TimerStep /\ FiredTimer.kind = "startGrouped") =>
            \A k \in 1..Len(TimersAdded) :
                /\ objs[TimersAdded[k].obj].currentAnimation # "enter"
                /\ ~objs[TimersAdded[k].obj].enterCompleted
       /\ \A k \in 1..Len(groupCompleteCallbacks') :
            NoRepeatedGroup(groupCompleteCallbacks'[k])
       /\ \A k \in 1..Len(enterCompleteCallbacks') : enterCompleteCallbacks'[k] <= 1]_vars

\* C29: in grouped playback started in parallel mode, the completion of an enter
\* animation leaves currentGroup as it is and starts no further group, whatever
\* setMode() calls were made in the meantime.
C29_SetModeLeavesPlaybackInFlight ==
    [][(TimerStep /\ FiredTimer.kind = "enter") =>
            /\ currentGroupRef' = currentGroupRef
            /\ TimersAdded = <<>>]_vars

WithEmphasis == {i \in Registry : objs[i].emphasis.has}
EmphasisNotified(n) ==
    \A k \in 1..Len(emphasisCompleteCallbacks) : emphasisCompleteCallbacks[k] = n

C31_ExitNeverReplayed ==
    [][/\ AdvanceStep("exit") =>
            \A k \in 1..Len(NewTimers) :
                /\ objs[NewTimers[k].obj].currentAnimation # "exit"
                /\ ~objs[NewTimers[k].obj].exitCompleted
       /\ (TimerStep /\ FiredTimer.kind = "exit") =>
            \A k \in 1..Len(exitCompleteCallbacks) :
                exitCompleteCallbacks'[k] > exitCompleteCallbacks[k]
                    => exitCompleteCallbacks[k] = 0]_vars

\* the step starts the given phase of element object i
PhaseStarts(i, phase) ==
    /\ i \in DOMAIN objs
    /\ objs'[i].currentAnimation = phase
    /\ \/ objs[i].currentAnimation # phase
       \/ \E k \in 1..Len(NewTimers) : NewTimers[k].obj = i

\* C32: an element's emphasis animation starts only when its enter has completed, and
\* its exit animation only when its enter has completed and, if it has an emphasis
\* descriptor, its emphasis has completed.
C32_PhasesOrderedPerElement ==
    [][\A i \in DOMAIN objs' :
        /\ PhaseStarts(i, "emphasis") => objs[i].enterCompleted
        /\ PhaseStarts(i, "exit") =>
            /\ objs[i].enterCompleted
            /\ objs[i].emphasis.has => objs[i].emphasisCompleted]_vars

\* the descriptor of the phase whose completion the timer reports
PhaseOf(tm) ==
    CASE tm.kind \in {"enter", "enterAll"} -> objs[tm.obj].enter
      [] tm.kind = "emphasis" -> objs[tm.obj].emphasis
      [] tm.kind = "exit" -> objs[tm.obj].exit

\* the completion timers the step has scheduled
Scheduled ==
    {k \in 1..Len(timers') :
        /\ CompletionTimer(timers'[k])
        /\ \A j \in 1..Len(timers) : timers[j] # timers'[k]}

\* C33: a phase triggered at time t completes at t + duration + delay, for enter,
\* emphasis and exit alike.
C33_CompletionAfterDurationPlusDelay ==
    [][\A k \in Scheduled :
        timers'[k].at = now' + PhaseOf(timers'[k]).duration + PhaseOf(timers'[k]).delay]_vars

\* C34: a skip() that follows a skip() invokes no onEnterComplete, onEmphasisComplete
\* or onExitComplete subscriber.
C34_SecondSkipNotifiesNobody ==
    [][(SkipStep /\ lastOp.name = "skip") =>
        UNCHANGED <<enterCompleteCallbacks, emphasisCompleteCallbacks,
                    exitCompleteCallbacks>>]_vars

\* the distinct group tags of the registered elements
RegisteredGroups == {objs[i].group : i \in Registry} \ {NoGroup}

\* C35: addElement with an id that is registered keeps the number of entries, leaves
\* one entry for the id, the object just created from the new descriptors and group,
\* and getTotalGroups() counts the group tags of the entries now registered.
C35_ReRegistrationOverwrites ==
    [][AdvanceStep("addElement") =>
        LET new == Len(objs')
            id == objs'[new].id
        IN  (\E i \in Registry : objs[i].id = id) =>
                /\ Len(elementsRef') = Len(elementsRef)
                /\ {i \in Registry' : objs'[i].id = id} = {new}
                /\ \A i \in Registry' \ {new} : i \in Registry /\ objs'[i] = objs[i]
                /\ getTotalGroups(Engine)' = Cardinality(RegisteredGroups')]_vars

\* an id was registered again with another group tag
C35_IdRegisteredTwice ==
    /\ lastOp.name = "addElement"
    /\ Len(objs) = 2 /\ elementsRef = <<2>>
    /\ objs[1].id = objs[2].id
    /\ objs[1].group # objs[2].group
    /\ objs[1].enter # objs[2].enter

\* C40: getTotalGroups() is the number of distinct group tags of the registered
\* elements.
C40_TotalGroupsNeverStale ==
    getTotalGroups(Engine) = Cardinality(RegisteredGroups)

\* an id tagged with a group was registered again without one: the element count is
\* the same and the group count is not
C40_OverwriteChangedGroupCount ==
    /\ lastOp.name = "addElement"
    /\ elementsRef = <<2>>
    /\ objs[1].id = objs[2].id
    /\ objs[1].group = 0 /\ objs[2].group = NoGroup
    /\ getTotalGroups(Engine) = 0

PendingEnterTimers(o) ==
    {k \in 1..Len(timers) : timers[k].kind = "enter" /\ timers[k].obj = o}

\* C39: an element has at most one enter-completion timer pending.
C39_OnePendingEnterTimer ==
    \A o \in DOMAIN objs : Cardinality(PendingEnterTimers(o)) <= 1

\* grouped playback has started, the engine is the active handle, and nothing is
\* pending: no timer, no render
GateAtRest == isGroupedState /\ currentSlideAPI /\ timers = <<>> /\ ~RenderPending

\* C38: at rest a goNext either changes the page or makes progress (it moves
\* currentGroup or starts an animation), so that repeated goNext calls reach the
\* slide-change step.
C38_GoNextMakesProgress ==
    GateAtRest =>
        LET r == goNext(Engine, currentSlideAPI, now)
        IN  \/ r.outcome = "page-change"
            \/ r.s.timers # <<>>
            \/ r.s.currentGroupRef # currentGroupRef

\* C36: every onElementEnterComplete call the manager receives for a registered id
\* comes from the wrapper instance of that registration, duration + delay after that
\* instance went from hidden to entering, and is the only call for the registration;
\* the timer of an earlier mount of the id does not report into a later registration.
C36_EnterReportedOncePerRegistration ==
    \A k \in DOMAIN reports :
        LET r == reports[k]
        IN  r.registration # 0 =>
                /\ r.by = r.registration
                /\ r.at = wrappers[r.by].enteredAt + WrapperTime(wrappers[r.by].props.enter)
                /\ \A j \in 1..(k - 1) : reports[j].registration # r.registration

WrapperTransitions ==
    {<<"hidden", "entering">>, <<"entering", "visible">>, <<"visible", "emphasizing">>,
     <<"emphasizing", "visible">>, <<"visible", "exiting">>, <<"emphasizing", "exiting">>}

\* C37: a wrapper's animationState changes only along hidden->entering->visible,
\* visible->emphasizing->visible and visible/emphasizing->exiting; nothing leaves
\* exiting; an emphasis starts only when the trigger counter is above the wrapper's
\* emphasisCount, which it then takes up; and a wrapper is emphasizing only after
\* its enter timer has run.
C37_WrapperStateMachine ==
    [][\A i \in DOMAIN wrappers :
        LET from == wrappers[i].animationState
            to == wrappers'[i].animationState
        IN  /\ from # to => <<from, to>> \in WrapperTransitions
            /\ (from # to /\ to = "emphasizing") =>
                   /\ manager.triggerEmphasis > wrappers[i].emphasisCount
                   /\ wrappers'[i].emphasisCount = manager.triggerEmphasis
            /\ to = "emphasizing" => wrappers'[i].enterCompletedRef]_vars

\* a wrapper has entered, has completed an emphasis, has taken up the second increase
\* of the trigger counter and is exiting
C37_ExitingAfterEmphasis ==
    \E i \in DOMAIN wrappers :
        /\ wrappers[i].animationState = "exiting"
        /\ wrappers[i].timerRef.kind = "exit"
        /\ wrappers[i].emphasisCompletedRef
        /\ wrappers[i].emphasisCount = 2

====
